---- MODULE Spec2Model ----
(***************************************************************************)
(* A model of the generation client of the agent console:                  *)
(*   - GeminiService.executeWithRetry (src/services/geminiService.ts):     *)
(*     one call tries the configured API keys in circular order, starting  *)
(*     at the sticky index currentKeyIndex;                                *)
(*   - executeRetrain (src/pages/Knowledge.tsx and the queued-upload       *)
(*     version of that page): the resumable re-analysis of the knowledge   *)
(*     items of one agent, with its trainingProgress checkpoint.           *)
(* Pool indices are 0-based as in the source; TLA+ sequences are 1-based,  *)
(* so the key at pool index x is apiKeys[x + 1].                           *)
(***************************************************************************)
EXTENDS Integers, Sequences, FiniteSets, TLC

\* ------------------------------------------------------------------ bounds
\* largest number of API keys in a pool
MaxKeys == 3

\* ------------------------------------------------------------ credentials
\* an API key is a string, modelled as a sequence of characters
WS == " "
KeyStrings == {<<>>, <<WS>>, <<"k">>, <<WS, "k">>}

\* String.prototype.trim: drop the white space at both ends
RECURSIVE TrimLeft(_)
TrimLeft(s) == IF s # <<>> /\ Head(s) = WS THEN TrimLeft(Tail(s)) ELSE s

RECURSIVE TrimRight(_)
TrimRight(s) ==
  IF s # <<>> /\ s[Len(s)] = WS THEN TrimRight(SubSeq(s, 1, Len(s) - 1)) ELSE s

trim(s) == TrimRight(TrimLeft(s))

\* a skip test that forgets trim(): only the empty string is skipped
IsBlank_emptyOnly(apiKey) == apiKey = <<>>

\* the skip test of the loop: !apiKey || !apiKey.trim()
IsBlank(apiKey) == apiKey = <<>> \/ trim(apiKey) = <<>>

\* all pools of at most MaxKeys keys
Pools == UNION {[1..n -> KeyStrings] : n \in 0..MaxKeys}

\* a loop that forgets the sticky index and always starts at index 0
indexToCheck_fromZero(k, i, n) == i % n

\* a loop that starts one past the sticky index
indexToCheck_offByOne(k, i, n) == (k + i + 1) % n

\* (this.currentKeyIndex + i) % this.apiKeys.length
indexToCheck(k, i, n) == (k + i) % n

\* the pool indices that hold a key the loop does not skip
NonBlank(keys) == {x \in 0..(Len(keys) - 1) : ~IsBlank(keys[x + 1])}

\* ------------------------------------------------------------------ errors
Undefined == [kind |-> "undefined", index |-> -1]
\* new Error("No API Keys configured. Please add them in Settings.")
NoKeysError == [kind |-> "NoApiKeysConfigured", index |-> -1]
\* new Error("All API keys failed.")
AllKeysFailedError == [kind |-> "AllApiKeysFailed", index |-> -1]
\* the error the operation throws when it is run with the key at index x
TransportError(x) == [kind |-> "TransportError", index |-> x]

\* ------------------------------------------------------------------- state
VARIABLES
  apiKeysNull,      \* the constructor was given no array (null / undefined)
  apiKeys,          \* GeminiService.apiKeys
  currentKeyIndex,  \* GeminiService.currentKeyIndex
  valid,            \* pool indices whose key the external API accepts now
  call,             \* the activation record of each executeWithRetry call
  queued,           \* the page is the queued-upload version of Knowledge
  knowledgeList,    \* knowledge/<agent>, newest first, as the listener keeps it
  savedProgress,    \* trainingProgress/<agent>, as the listener keeps it
  selectedItemIds,  \* the selection (queued-upload version only)
  stopRetrainRef,   \* stopRetrainRef.current
  isProcessing,     \* isProcessing (isProcessingQueue in the queued version)
  status,           \* the status line, by the kind of its text
  summaries,        \* ids whose contentSummary the current run has rewritten
  run,              \* the activation record of executeRetrain
  invoked,          \* ids analyzeContent was called for since the last fresh start
  trainingQueue,    \* trainingQueue (queued-upload version): status of each entry
  chat              \* the chat page: handleSend's activation record and the messages

clientVars == <<apiKeysNull, apiKeys, currentKeyIndex, valid>>
batchVars == <<queued, knowledgeList, savedProgress, selectedItemIds,
               stopRetrainRef, isProcessing, status, summaries, run>>
sideVars == <<invoked, trainingQueue, chat>>
vars == <<apiKeysNull, apiKeys, currentKeyIndex, valid, call, queued,
          knowledgeList, savedProgress, selectedItemIds, stopRetrainRef,
          isProcessing, status, summaries, run, invoked, trainingQueue, chat>>

\* the callers that can have a call in flight
Calls == {"chat", "retrain"}

\* the first part of every request: { text: prompt }
TextPart == [text |-> "prompt"]

\* an activation record before the call: the request (its files and the
\* parts built from them), the locals of executeWithRetry and what the call
\* has done (converted: the files converted so far, by position; sent: the
\* parts each attempt has sent)
IdleCall ==
  [pc |-> "idle", i |-> 0, indexToCheck |-> -1, lastError |-> Undefined,
   returned |-> -1, thrown |-> Undefined,
   startIndex |-> -1, visited |-> <<>>, attempts |-> <<>>, events |-> <<>>,
   files |-> <<>>, parts |-> <<TextPart>>, converted |-> <<>>, sent |-> <<>>]

\* trainingProgress/<agent> when no record exists; item ids are positive
\* numbers and 0 stands for the empty id ''
NoProgress ==
  [exists |-> FALSE, lastProcessedId |-> 0, totalItems |-> 0,
   processedCount |-> 0, targetIds |-> {}]

\* executeRetrain before it is called: the values its closure captured, its
\* locals, what the last run did, and the stop flag it found when called
IdleRun ==
  [pc |-> "idle", resume |-> FALSE, targetItems |-> <<>>,
   selected |-> {}, closure |-> NoProgress, startIndex |-> -1, i |-> 0,
   attempted |-> <<>>, pausedAt |-> -1, lastKey |-> -1, staleStop |-> FALSE]

\* handleSend before it is called, in a session without messages: the
\* page it belongs to (the streaming, the admin or the public chat), the
\* persisted messages, isTyping, streamingText (Null when no bubble is
\* shown), the text received so far, whether a stream handle was obtained,
\* the error the handler caught, the files of the send and the text
\* chatWithAgent returned
Null == <<"null">>
IdleChat ==
  [pc |-> "idle", page |-> "stream", messages |-> <<>>, isTyping |-> FALSE,
   streamingText |-> Null, fullResponseText |-> <<>>, opened |-> FALSE,
   error |-> Undefined, filesToSend |-> <<>>, responseText |-> <<>>]

\* no retrain call logged, no upload queued, no chat turn
SideIdle ==
  /\ invoked = <<>>
  /\ trainingQueue = <<>>
  /\ chat = IdleChat

\* the page state while only the client is exercised
BatchIdle ==
  /\ SideIdle
  /\ queued = FALSE
  /\ knowledgeList = <<>>
  /\ savedProgress = NoProgress
  /\ selectedItemIds = {}
  /\ stopRetrainRef = FALSE
  /\ isProcessing = FALSE
  /\ status = ""
  /\ summaries = {}
  /\ run = IdleRun

\* a call that has begun and whose caller has not yet taken its outcome
Busy(c) == call[c].pc # "idle"

Init ==
  /\ apiKeysNull \in BOOLEAN
  /\ apiKeys \in Pools
  /\ apiKeysNull => apiKeys = <<>>
  /\ currentKeyIndex = 0
  /\ valid \in SUBSET NonBlank(apiKeys)
  /\ call = [c \in Calls |-> IdleCall]
  /\ BatchIdle

\* ----------------------------------------------------- executeWithRetry
\* an entry check that tests only for a missing array, not for an empty one
Enter_nullOnly(c) ==
  IF apiKeysNull
    THEN call' = [call EXCEPT ![c] = [IdleCall EXCEPT
                    !.pc = "threw", !.thrown = NoKeysError, !.startIndex = currentKeyIndex,
                    !.files = call[c].files, !.parts = call[c].parts,
                    !.converted = call[c].converted]]
    ELSE call' = [call EXCEPT ![c] = [IdleCall EXCEPT
                    !.pc = "loop", !.i = 0, !.lastError = Undefined,
                    !.startIndex = currentKeyIndex,
                    !.files = call[c].files, !.parts = call[c].parts,
                    !.converted = call[c].converted]]

\* entry: the configuration check, then the loop starts with i = 0
Enter(c) ==
  IF apiKeysNull \/ Len(apiKeys) = 0
    THEN call' = [call EXCEPT ![c] = [IdleCall EXCEPT
                    !.pc = "threw", !.thrown = NoKeysError, !.startIndex = currentKeyIndex,
                    !.files = call[c].files, !.parts = call[c].parts,
                    !.converted = call[c].converted]]
    ELSE call' = [call EXCEPT ![c] = [IdleCall EXCEPT
                    !.pc = "loop", !.i = 0, !.lastError = Undefined,
                    !.startIndex = currentKeyIndex,
                    !.files = call[c].files, !.parts = call[c].parts,
                    !.converted = call[c].converted]]

\* a caller outside the retrain run (a chat turn) calls the client
Begin(c) ==
  /\ call[c].pc = "idle"
  /\ Enter(c)
  /\ UNCHANGED clientVars
  /\ UNCHANGED batchVars
  /\ UNCHANGED sideVars

\* an event that carries the 0-based index
RotateEvents_zeroBased(i, x, nAttempts) ==
  IF i > 0 THEN <<[index |-> x, i |-> i, before |-> nAttempts]>> ELSE <<>>

\* the window events one iteration dispatches before its attempt
RotateEvents(i, x, nAttempts) ==
  IF i > 0 THEN <<[index |-> x + 1, i |-> i, before |-> nAttempts]>> ELSE <<>>

\* one iteration whose key is blank: continue
Skip(c) ==
  /\ call[c].pc = "loop"
  /\ call[c].i < Len(apiKeys)
  /\ LET x == indexToCheck(currentKeyIndex, call[c].i, Len(apiKeys)) IN
       /\ IsBlank(apiKeys[x + 1])
       /\ call' = [call EXCEPT ![c].i = @ + 1,
                               ![c].visited = Append(@, x)]
  /\ UNCHANGED <<apiKeysNull, apiKeys, currentKeyIndex, valid>>
  /\ UNCHANGED batchVars
  /\ UNCHANGED sideVars

\* an operation that builds the parts itself: every attempt converts the
\* files again
Attempt_reconverts(c) ==
  /\ call[c].pc = "loop"
  /\ call[c].i < Len(apiKeys)
  /\ LET x == indexToCheck(currentKeyIndex, call[c].i, Len(apiKeys)) IN
       /\ ~IsBlank(apiKeys[x + 1])
       /\ call' = [call EXCEPT
            ![c].pc = "await",
            ![c].indexToCheck = x,
            ![c].visited = Append(@, x),
            ![c].events = @ \o RotateEvents(call[c].i, x, Len(call[c].attempts)),
            ![c].attempts = Append(@, x),
            ![c].converted = @ \o [j \in 1..Len(call[c].files) |-> j],
            ![c].sent = Append(@, call[c].parts)]
  /\ UNCHANGED <<apiKeysNull, apiKeys, currentKeyIndex, valid>>
  /\ UNCHANGED batchVars
  /\ UNCHANGED sideVars

\* one iteration whose key is not blank, up to the await of the operation;
\* the operation sends the parts its closure holds
Attempt(c) ==
  /\ call[c].pc = "loop"
  /\ call[c].i < Len(apiKeys)
  /\ LET x == indexToCheck(currentKeyIndex, call[c].i, Len(apiKeys)) IN
       /\ ~IsBlank(apiKeys[x + 1])
       /\ call' = [call EXCEPT
            ![c].pc = "await",
            ![c].indexToCheck = x,
            ![c].visited = Append(@, x),
            ![c].events = @ \o RotateEvents(call[c].i, x, Len(call[c].attempts)),
            ![c].attempts = Append(@, x),
            ![c].sent = Append(@, call[c].parts)]
  /\ UNCHANGED <<apiKeysNull, apiKeys, currentKeyIndex, valid>>
  /\ UNCHANGED batchVars
  /\ UNCHANGED sideVars

\* a success that does not move the sticky index
Succeed_noMark(c) ==
  /\ call[c].pc = "await"
  /\ call[c].indexToCheck \in valid
  /\ call' = [call EXCEPT ![c].pc = "returned",
                          ![c].returned = call[c].indexToCheck]
  /\ UNCHANGED <<apiKeysNull, apiKeys, currentKeyIndex, valid>>
  /\ UNCHANGED batchVars
  /\ UNCHANGED sideVars

\* the operation resolves: the sticky index moves to this key, and return
Succeed(c) ==
  /\ call[c].pc = "await"
  /\ call[c].indexToCheck \in valid
  /\ currentKeyIndex' = call[c].indexToCheck
  /\ call' = [call EXCEPT ![c].pc = "returned",
                          ![c].returned = call[c].indexToCheck]
  /\ UNCHANGED <<apiKeysNull, apiKeys, valid>>
  /\ UNCHANGED batchVars
  /\ UNCHANGED sideVars

\* a failure that already moves the sticky index on to the next key
Fail_rotates(c) ==
  /\ call[c].pc = "await"
  /\ call[c].indexToCheck \notin valid
  /\ currentKeyIndex' = (call[c].indexToCheck + 1) % Len(apiKeys)
  /\ call' = [call EXCEPT ![c].pc = "loop",
                          ![c].lastError = TransportError(call[c].indexToCheck),
                          ![c].i = @ + 1]
  /\ UNCHANGED <<apiKeysNull, apiKeys, valid>>
  /\ UNCHANGED batchVars
  /\ UNCHANGED sideVars

\* the operation rejects: remember the error, go on with the next key
Fail(c) ==
  /\ call[c].pc = "await"
  /\ call[c].indexToCheck \notin valid
  /\ call' = [call EXCEPT ![c].pc = "loop",
                          ![c].lastError = TransportError(call[c].indexToCheck),
                          ![c].i = @ + 1]
  /\ UNCHANGED <<apiKeysNull, apiKeys, currentKeyIndex, valid>>
  /\ UNCHANGED batchVars
  /\ UNCHANGED sideVars

\* an exit that reports a missing configuration when no key was attempted
ThrownAtExit_config(lastError) ==
  IF lastError # Undefined THEN lastError ELSE NoKeysError

\* an exit that drops the recorded error
ThrownAtExit_generic(lastError) == AllKeysFailedError

\* throw lastError || new Error("All API keys failed.")
ThrownAtExit(lastError) ==
  IF lastError # Undefined THEN lastError ELSE AllKeysFailedError

\* the loop ends without a return
Exhausted(c) ==
  /\ call[c].pc = "loop"
  /\ call[c].i >= Len(apiKeys)
  /\ call' = [call EXCEPT ![c].pc = "threw",
                          ![c].thrown = ThrownAtExit(call[c].lastError)]
  /\ UNCHANGED <<apiKeysNull, apiKeys, currentKeyIndex, valid>>
  /\ UNCHANGED batchVars
  /\ UNCHANGED sideVars

\* the caller has taken the result or the error
Done(c) ==
  /\ call[c].pc \in {"returned", "threw"}
  /\ call' = [call EXCEPT ![c] = IdleCall]
  /\ UNCHANGED <<apiKeysNull, apiKeys, currentKeyIndex, valid>>
  /\ UNCHANGED batchVars
  /\ UNCHANGED sideVars

\* the external API starts or stops accepting keys (quota, revocation);
\* what it answers for a key is stable for the time of one call
QuotaChange ==
  /\ \A c \in Calls : ~Busy(c)
  /\ \E v \in SUBSET NonBlank(apiKeys) : v # valid /\ valid' = v
  /\ UNCHANGED <<apiKeysNull, apiKeys, currentKeyIndex, call>>
  /\ UNCHANGED batchVars
  /\ UNCHANGED sideVars

\* one caller, one call at a time
Next ==
  \/ Begin("chat")
  \/ Skip("chat")
  \/ Attempt("chat")
  \/ Succeed("chat")
  \/ Fail("chat")
  \/ Exhausted("chat")
  \/ Done("chat")
  \/ QuotaChange

Spec == Init /\ [][Next]_vars

\* ------------------------------------------- requests with attachments
\* largest number of files of one request
MaxFiles == 2

\* the files a request can carry: a picture, a document, and a picture the
\* FileReader cannot read (its result is null)
Files ==
  {[type |-> "image/png", bytes |-> "b1", readable |-> TRUE],
   [type |-> "application/pdf", bytes |-> "b2", readable |-> TRUE],
   [type |-> "image/png", bytes |-> "b3", readable |-> FALSE]}

FileLists == UNION {[1..n -> Files] : n \in 0..MaxFiles}

\* the base64 text of the bytes of a file
Base64(bytes) ==
  CASE bytes = "b1" -> "YjE="
    [] bytes = "b2" -> "YjI="
    [] bytes = "b3" -> "YjM="

\* FileReader.readAsDataURL: "data:<type>;base64,<payload>", as its pieces
readAsDataURL(file) == <<"data:", file.type, ";base64", ",", Base64(file.bytes)>>

\* String.prototype.split(','): the pieces between the commas
RECURSIVE split(_, _)
split(s, cur) ==
  IF s = <<>> THEN <<cur>>
  ELSE IF Head(s) = "," THEN <<cur>> \o split(Tail(s), <<>>)
       ELSE split(Tail(s), Append(cur, Head(s)))

\* reject(new Error("Failed to read file"))
ReadError == [kind |-> "FailedToReadFile", index |-> -1]

\* fileToGenerativePart of a file that can be read
fileToGenerativePart(file) ==
  LET result == readAsDataURL(file)
      base64String == split(result, <<>>)[2]
  IN [inlineData |-> [data |-> base64String, mimeType |-> file.type]]

\* analyzeContent / chatWithAgent is called with some files: the parts
\* start with the text part
Request(c, files) ==
  /\ call[c].pc = "idle"
  /\ call' = [call EXCEPT ![c] = [IdleCall EXCEPT !.pc = "prepare",
                                                  !.files = files]]
  /\ UNCHANGED clientVars
  /\ UNCHANGED batchVars
  /\ UNCHANGED sideVars

\* the next file is converted and its part pushed
Convert(c) ==
  /\ call[c].pc = "prepare"
  /\ Len(call[c].converted) < Len(call[c].files)
  /\ LET j == Len(call[c].converted) + 1 IN
       /\ call[c].files[j].readable
       /\ call' = [call EXCEPT
            ![c].converted = Append(@, j),
            ![c].parts = Append(@, fileToGenerativePart(call[c].files[j]))]
  /\ UNCHANGED clientVars
  /\ UNCHANGED batchVars
  /\ UNCHANGED sideVars

\* the next file cannot be read: the request rejects before any attempt
ConvertFailed(c) ==
  /\ call[c].pc = "prepare"
  /\ Len(call[c].converted) < Len(call[c].files)
  /\ LET j == Len(call[c].converted) + 1 IN
       /\ ~call[c].files[j].readable
       /\ call' = [call EXCEPT ![c].converted = Append(@, j),
                               ![c].pc = "threw",
                               ![c].thrown = ReadError]
  /\ UNCHANGED clientVars
  /\ UNCHANGED batchVars
  /\ UNCHANGED sideVars

\* every file is converted: executeWithRetry is called with the operation
\* that sends the parts
Prepared(c) ==
  /\ call[c].pc = "prepare"
  /\ Len(call[c].converted) = Len(call[c].files)
  /\ Enter(c)
  /\ UNCHANGED clientVars
  /\ UNCHANGED batchVars
  /\ UNCHANGED sideVars

\* the pools a request is checked with: keys that are empty or plain
RequestPools == UNION {[1..n -> {<<>>, <<"k">>}] : n \in 0..MaxKeys}

RequestInit ==
  /\ apiKeysNull = FALSE
  /\ apiKeys \in RequestPools
  /\ currentKeyIndex = 0
  /\ valid \in SUBSET NonBlank(apiKeys)
  /\ call = [c \in Calls |-> IdleCall]
  /\ BatchIdle

RequestNext ==
  \/ \E files \in FileLists : Request("chat", files)
  \/ Convert("chat")
  \/ ConvertFailed("chat")
  \/ Prepared("chat")
  \/ Skip("chat")
  \/ Attempt("chat")
  \/ Succeed("chat")
  \/ Fail("chat")
  \/ Exhausted("chat")
  \/ Done("chat")
  \/ QuotaChange

RequestSpec == RequestInit /\ [][RequestNext]_vars

\* ------------------------------------------------------ streaming chat
\* largest number of chunks of one stream, and of sends in one session
MaxChunks == 2
MaxTurns == 2

\* failure of the transport after the stream has started
StreamTransportError == [kind |-> "StreamTransportError", index |-> -1]

UserMessage == [role |-> "user", text |-> <<"input">>]
ModelMessage(text) == [role |-> "model", text |-> text]
\* "Error: Failed to connect to AI Agent."
ErrorText == <<"Error: Failed to connect to AI Agent.">>

\* handleSend of the streaming chat page: the user message is pushed, the
\* stream is created and the first chunk is asked for, which makes the
\* adapter open the stream with the key rotation of executeWithRetry
StreamSend ==
  /\ chat.pc = "idle"
  /\ call["chat"].pc = "idle"
  /\ Len(chat.messages) < 2 * MaxTurns
  /\ chat' = [chat EXCEPT !.pc = "opening",
                          !.messages = Append(@, UserMessage),
                          !.isTyping = FALSE,
                          !.streamingText = <<>>,
                          !.fullResponseText = <<>>,
                          !.opened = FALSE,
                          !.error = Undefined]
  /\ Enter("chat")
  /\ UNCHANGED clientVars
  /\ UNCHANGED batchVars
  /\ UNCHANGED <<invoked, trainingQueue>>

\* the rotation has returned an open stream handle
StreamOpened ==
  /\ chat.pc = "opening"
  /\ call["chat"].pc = "returned"
  /\ chat' = [chat EXCEPT !.pc = "streaming", !.opened = TRUE]
  /\ UNCHANGED <<clientVars, call>>
  /\ UNCHANGED batchVars
  /\ UNCHANGED <<invoked, trainingQueue>>

\* no key could open the stream: the error of the rotation reaches the
\* consumer's for-await
OpenFailed ==
  /\ chat.pc = "opening"
  /\ call["chat"].pc = "threw"
  /\ chat' = [chat EXCEPT !.pc = "caught", !.error = call["chat"].thrown]
  /\ UNCHANGED <<clientVars, call>>
  /\ UNCHANGED batchVars
  /\ UNCHANGED <<invoked, trainingQueue>>

\* a chunk arrives: fullResponseText += chunk; setStreamingText(...)
ChunkArrives ==
  /\ chat.pc = "streaming"
  /\ Len(chat.fullResponseText) < MaxChunks
  /\ LET text == Append(chat.fullResponseText, "chunk") IN
       chat' = [chat EXCEPT !.fullResponseText = text, !.streamingText = text]
  /\ UNCHANGED <<clientVars, call>>
  /\ UNCHANGED batchVars
  /\ UNCHANGED <<invoked, trainingQueue>>

\* the transport signals completion: the loop ends, the reply is pushed,
\* and the finally block clears the bubble
StreamCompletes ==
  /\ chat.pc = "streaming"
  /\ chat' = [chat EXCEPT !.pc = "done",
                          !.messages = Append(@, ModelMessage(chat.fullResponseText)),
                          !.streamingText = Null,
                          !.isTyping = FALSE]
  /\ UNCHANGED <<clientVars, call>>
  /\ UNCHANGED batchVars
  /\ UNCHANGED <<invoked, trainingQueue>>

\* the transport fails while chunks are produced: the sequence throws to
\* its consumer
StreamBreaks ==
  /\ chat.pc = "streaming"
  /\ chat' = [chat EXCEPT !.pc = "caught", !.error = StreamTransportError]
  /\ UNCHANGED <<clientVars, call>>
  /\ UNCHANGED batchVars
  /\ UNCHANGED <<invoked, trainingQueue>>

\* a catch block that asks for the stream once more
SendCaught_retries ==
  /\ chat.pc = "caught"
  /\ chat' = [chat EXCEPT !.pc = "opening",
                          !.fullResponseText = <<>>,
                          !.streamingText = <<>>]
  /\ Enter("chat")
  /\ UNCHANGED clientVars
  /\ UNCHANGED batchVars
  /\ UNCHANGED <<invoked, trainingQueue>>

\* the catch block pushes the error text; the finally block clears the bubble
SendCaught ==
  /\ chat.pc = "caught"
  /\ chat' = [chat EXCEPT !.pc = "done",
                          !.messages = Append(@, ModelMessage(ErrorText)),
                          !.streamingText = Null,
                          !.isTyping = FALSE]
  /\ UNCHANGED <<clientVars, call>>
  /\ UNCHANGED batchVars
  /\ UNCHANGED <<invoked, trainingQueue>>

\* handleSend has returned; the client it made is dropped (the next send
\* makes a new one, whose sticky index is 0)
SendReturned ==
  /\ chat.pc = "done"
  /\ chat' = [chat EXCEPT !.pc = "idle", !.fullResponseText = <<>>,
                          !.opened = FALSE, !.error = Undefined]
  /\ call' = [call EXCEPT !["chat"] = IdleCall]
  /\ currentKeyIndex' = 0
  /\ UNCHANGED <<apiKeysNull, apiKeys, valid>>
  /\ UNCHANGED batchVars
  /\ UNCHANGED <<invoked, trainingQueue>>

StreamInit ==
  /\ apiKeysNull = FALSE
  /\ apiKeys \in RequestPools
  /\ currentKeyIndex = 0
  /\ valid \in SUBSET NonBlank(apiKeys)
  /\ call = [c \in Calls |-> IdleCall]
  /\ BatchIdle

StreamNext ==
  \/ StreamSend
  \/ Skip("chat")
  \/ Attempt("chat")
  \/ Succeed("chat")
  \/ Fail("chat")
  \/ Exhausted("chat")
  \/ StreamOpened
  \/ OpenFailed
  \/ ChunkArrives
  \/ StreamCompletes
  \/ StreamBreaks
  \/ SendCaught
  \/ SendReturned
  \/ QuotaChange

StreamSpec == StreamInit /\ [][StreamNext]_vars

\* two callers share one client: each may begin a call while the other's
\* call is suspended at the await of its operation.  The code between two
\* awaits runs without interruption (one JavaScript thread), so while a call
\* is inside its loop (pc = "loop") no other call takes a step.
Scheduled(c) == \A d \in Calls \ {c} : call[d].pc # "loop"

ConcNext ==
  \/ \E c \in Calls : Scheduled(c) /\ Begin(c)
  \/ \E c \in Calls : Scheduled(c) /\ Skip(c)
  \/ \E c \in Calls : Scheduled(c) /\ Attempt(c)
  \/ \E c \in Calls : Scheduled(c) /\ Succeed(c)
  \/ \E c \in Calls : Scheduled(c) /\ Fail(c)
  \/ \E c \in Calls : Scheduled(c) /\ Exhausted(c)
  \/ \E c \in Calls : Scheduled(c) /\ Done(c)
  \/ QuotaChange

ConcSpec == Init /\ [][ConcNext]_vars

\* ------------------------------------------------------------ Knowledge page
\* largest number of knowledge items of the agent
MaxItems == 3

\* the knowledge lists: ids in the order of the listener's sort
RECURSIVE SortedSeq(_)
SortedSeq(S) ==
  IF S = {} THEN <<>>
  ELSE LET m == CHOOSE x \in S : \A y \in S : x <= y
       IN <<m>> \o SortedSeq(S \ {m})

KnowledgeLists == {SortedSeq(S) : S \in SUBSET (1..MaxItems)}

\* the settings records a retrain run is checked with: no key, one blank
\* key, one key (an item succeeds or fails as the API accepts that key)
RetrainPools == {<<>>} \cup {<<key>> : key \in {<<>>, <<"k">>}}

\* the ids of a list of items: list.map(k => k.id)
IdsOf(T) == {T[j] : j \in 1..Len(T)}

\* Array.prototype.findIndex(k => k.id === id): 0-based, -1 when absent
RECURSIVE findIndexFrom(_, _, _)
findIndexFrom(list, id, j) ==
  IF j > Len(list) THEN -1
  ELSE IF list[j] = id THEN j - 1 ELSE findIndexFrom(list, id, j + 1)

findIndex(list, id) == findIndexFrom(list, id, 1)

\* the items one run works on: the selection when there is one (queued
\* version), else the whole list
TargetItems(q, list, sel) ==
  IF q /\ sel # {} THEN SelectSeq(list, LAMBDA k : k \in sel) ELSE list

\* a resume that starts again at the item the checkpoint names
StartIndex_repeats(resume, progress, targetItems) ==
  IF resume /\ progress.exists /\ progress.lastProcessedId # 0
    THEN LET foundIndex == findIndex(targetItems, progress.lastProcessedId)
         IN IF foundIndex # -1 THEN foundIndex ELSE 0
    ELSE 0

\* a resume that leaves out the item after the one the checkpoint names
StartIndex_skips(resume, progress, targetItems) ==
  IF resume /\ progress.exists /\ progress.lastProcessedId # 0
    THEN LET foundIndex == findIndex(targetItems, progress.lastProcessedId)
         IN IF foundIndex # -1 THEN foundIndex + 2 ELSE 0
    ELSE 0

\* where the loop starts: after the item the checkpoint names, if resuming
StartIndex(resume, progress, targetItems) ==
  IF resume /\ progress.exists /\ progress.lastProcessedId # 0
    THEN LET foundIndex == findIndex(targetItems, progress.lastProcessedId)
         IN IF foundIndex # -1 THEN foundIndex + 1 ELSE 0
    ELSE 0

\* a fresh record that leaves out the selection the run works on
FreshProgress_noSubset(q, targetItems, sel) ==
  [exists |-> TRUE, lastProcessedId |-> 0, totalItems |-> Len(targetItems),
   processedCount |-> 0, targetIds |-> {}]

\* the record a fresh run writes with set()
FreshProgress(q, targetItems, sel) ==
  [exists |-> TRUE, lastProcessedId |-> 0, totalItems |-> Len(targetItems),
   processedCount |-> 0, targetIds |-> IF q THEN sel ELSE {}]

\* the finally block: the pages version also clears the stop flag
FinallyStop(q, stop) == IF q THEN stop ELSE FALSE

BatchInit ==
  /\ apiKeysNull \in BOOLEAN
  /\ apiKeys \in RetrainPools
  /\ apiKeysNull => apiKeys = <<>>
  /\ currentKeyIndex = 0
  /\ valid \in SUBSET NonBlank(apiKeys)
  /\ call = [c \in Calls |-> IdleCall]
  /\ queued \in BOOLEAN
  /\ knowledgeList \in KnowledgeLists
  /\ savedProgress = NoProgress
  /\ selectedItemIds = {}
  /\ stopRetrainRef = FALSE
  /\ isProcessing = FALSE
  /\ status = ""
  /\ summaries = {}
  /\ run = IdleRun
  /\ SideIdle

\* a start that leaves the stop flag as it finds it
executeRetrain_keepsFlag(resume, seen) ==
  /\ run.pc = "idle"
  /\ ~isProcessing
  /\ knowledgeList # <<>>
  /\ resume => savedProgress.exists
  /\ stopRetrainRef' = stopRetrainRef
  /\ isProcessing' = TRUE
  /\ status' = "Initializing"
  /\ summaries' = {}
  /\ run' = [IdleRun EXCEPT
       !.pc = "getSettings",
       !.resume = resume,
       !.targetItems = TargetItems(queued, knowledgeList, selectedItemIds),
       !.selected = selectedItemIds,
       !.staleStop = (seen /\ stopRetrainRef),
       !.closure = IF resume THEN savedProgress ELSE NoProgress]
  /\ invoked' = IF resume THEN invoked ELSE <<>>
  /\ UNCHANGED <<clientVars, call, queued, knowledgeList, savedProgress,
                 selectedItemIds, trainingQueue, chat>>

\* the confirm button of the modal: executeRetrain(resume) up to the await of
\* getSettings; the closure holds the list, the selection and the checkpoint
\* of the render the button belongs to (the checkpoint is read only when
\* resuming, and is kept only then); with seen, the activation record also
\* keeps the value the stop flag had when the handler was entered
executeRetrain(resume, seen) ==
  /\ run.pc = "idle"
  /\ ~isProcessing
  /\ knowledgeList # <<>>
  /\ resume => savedProgress.exists
  /\ stopRetrainRef' = FALSE
  /\ isProcessing' = TRUE
  /\ status' = "Initializing"
  /\ summaries' = {}
  /\ run' = [IdleRun EXCEPT
       !.pc = "getSettings",
       !.resume = resume,
       !.targetItems = TargetItems(queued, knowledgeList, selectedItemIds),
       !.selected = selectedItemIds,
       !.staleStop = (seen /\ stopRetrainRef),
       !.closure = IF resume THEN savedProgress ELSE NoProgress]
  /\ invoked' = IF resume THEN invoked ELSE <<>>
  /\ UNCHANGED <<clientVars, call, queued, knowledgeList, savedProgress,
                 selectedItemIds, trainingQueue, chat>>

\* the run as the batch properties see it: nothing but the handler's own
\* state is kept
ExecuteRetrain(resume) == executeRetrain(resume, FALSE)

\* getSettings has answered: without keys the run ends here; else a new
\* client is made, the start index is computed and a fresh run writes its
\* checkpoint
SettingsLoaded ==
  /\ run.pc = "getSettings"
  /\ IF apiKeysNull \/ Len(apiKeys) = 0
       THEN /\ isProcessing' = FALSE
            /\ run' = [run EXCEPT !.pc = "ended"]
            /\ UNCHANGED <<currentKeyIndex, savedProgress>>
       ELSE LET startIndex == StartIndex(run.resume, run.closure, run.targetItems)
            IN /\ currentKeyIndex' = 0
               /\ savedProgress' =
                    IF run.resume THEN savedProgress
                    ELSE FreshProgress(queued, run.targetItems, run.selected)
               /\ run' = [run EXCEPT !.pc = "loop", !.startIndex = startIndex,
                                     !.i = startIndex]
               /\ UNCHANGED isProcessing
  /\ UNCHANGED <<apiKeysNull, apiKeys, valid, call, queued, knowledgeList,
                 selectedItemIds, stopRetrainRef, status, summaries>>
  /\ UNCHANGED sideVars

\* a pause that removes the checkpoint as a completed run does
RetrainPaused_clears ==
  /\ run.pc = "loop"
  /\ run.i < Len(run.targetItems)
  /\ stopRetrainRef
  /\ status' = "Paused"
  /\ isProcessing' = FALSE
  /\ savedProgress' = NoProgress
  /\ stopRetrainRef' = FinallyStop(queued, stopRetrainRef)
  /\ run' = [run EXCEPT !.pc = "ended", !.pausedAt = run.i]
  /\ UNCHANGED <<clientVars, call, queued, knowledgeList, selectedItemIds,
                 summaries>>
  /\ UNCHANGED sideVars

\* a loop that reads the stop flag once more after its last item
RetrainPaused_atEnd ==
  /\ run.pc = "loop"
  /\ run.i <= Len(run.targetItems)
  /\ stopRetrainRef
  /\ status' = "Paused"
  /\ isProcessing' = FALSE
  /\ stopRetrainRef' = FinallyStop(queued, stopRetrainRef)
  /\ run' = [run EXCEPT !.pc = "ended", !.pausedAt = run.i]
  /\ UNCHANGED <<clientVars, call, queued, knowledgeList, savedProgress,
                 selectedItemIds, summaries>>
  /\ UNCHANGED sideVars

\* the loop head with the stop flag set: return, keeping the checkpoint
RetrainPaused ==
  /\ run.pc = "loop"
  /\ run.i < Len(run.targetItems)
  /\ stopRetrainRef
  /\ status' = "Paused"
  /\ isProcessing' = FALSE
  /\ stopRetrainRef' = FinallyStop(queued, stopRetrainRef)
  /\ run' = [run EXCEPT !.pc = "ended", !.pausedAt = run.i]
  /\ UNCHANGED <<clientVars, call, queued, knowledgeList, savedProgress,
                 selectedItemIds, summaries>>
  /\ UNCHANGED sideVars

\* the loop head with the flag clear: the item's content is prepared and
\* gemini.analyzeContent is called
AnalyzeItemStep ==
  /\ run.pc = "loop"
  /\ run.i < Len(run.targetItems)
  /\ ~stopRetrainRef
  /\ status' = "Re-analyzing"
  /\ run' = [run EXCEPT !.pc = "analyze", !.attempted = Append(@, run.i)]
  /\ Enter("retrain")
  /\ UNCHANGED <<clientVars, queued, knowledgeList, savedProgress,
                 selectedItemIds, stopRetrainRef, isProcessing, summaries>>
  /\ UNCHANGED <<trainingQueue, chat>>

\* that step where the calls are not logged across runs
AnalyzeItem ==
  /\ AnalyzeItemStep
  /\ UNCHANGED invoked

\* that step where every call of analyzeContent is logged with its item
AnalyzeItemLogged ==
  /\ AnalyzeItemStep
  /\ invoked' = Append(invoked, run.targetItems[run.i + 1])

\* a step that takes the result but does not write the summary
SummaryWritten_skips ==
  /\ run.pc = "analyze"
  /\ call["retrain"].pc = "returned"
  /\ call' = [call EXCEPT !["retrain"] = IdleCall]
  /\ run' = [run EXCEPT !.pc = "checkpoint",
                        !.lastKey = call["retrain"].returned]
  /\ UNCHANGED <<clientVars, queued, knowledgeList, savedProgress,
                 selectedItemIds, stopRetrainRef, isProcessing, status,
                 summaries>>
  /\ UNCHANGED sideVars

\* a loop that makes a new client for every item
SummaryWritten_newClient ==
  /\ run.pc = "analyze"
  /\ call["retrain"].pc = "returned"
  /\ summaries' = summaries \cup {run.targetItems[run.i + 1]}
  /\ call' = [call EXCEPT !["retrain"] = IdleCall]
  /\ run' = [run EXCEPT !.pc = "checkpoint",
                        !.lastKey = call["retrain"].returned]
  /\ currentKeyIndex' = 0
  /\ UNCHANGED <<apiKeysNull, apiKeys, valid, queued, knowledgeList,
                 savedProgress, selectedItemIds, stopRetrainRef, isProcessing,
                 status>>
  /\ UNCHANGED sideVars

\* analyzeContent has returned: the new summary is written to the item
SummaryWritten ==
  /\ run.pc = "analyze"
  /\ call["retrain"].pc = "returned"
  /\ summaries' = summaries \cup {run.targetItems[run.i + 1]}
  /\ call' = [call EXCEPT !["retrain"] = IdleCall]
  /\ run' = [run EXCEPT !.pc = "checkpoint",
                        !.lastKey = call["retrain"].returned]
  /\ UNCHANGED <<clientVars, queued, knowledgeList, savedProgress,
                 selectedItemIds, stopRetrainRef, isProcessing, status>>
  /\ UNCHANGED sideVars

\* an advance that records the position of the item in place of its id
CheckpointAdvanced_position ==
  /\ run.pc = "checkpoint"
  /\ savedProgress' = [savedProgress EXCEPT
       !.exists = TRUE,
       !.lastProcessedId = run.i + 1,
       !.totalItems = Len(run.targetItems),
       !.processedCount = run.i + 1]
  /\ run' = [run EXCEPT !.pc = "loop", !.i = run.i + 1]
  /\ UNCHANGED <<clientVars, call, queued, knowledgeList, selectedItemIds,
                 stopRetrainRef, isProcessing, status, summaries>>
  /\ UNCHANGED sideVars

\* an advance that adds one to the stored count
CheckpointAdvanced_increments ==
  /\ run.pc = "checkpoint"
  /\ savedProgress' = [savedProgress EXCEPT
       !.exists = TRUE,
       !.lastProcessedId = run.targetItems[run.i + 1],
       !.totalItems = Len(run.targetItems),
       !.processedCount = @ + 1]
  /\ run' = [run EXCEPT !.pc = "loop", !.i = run.i + 1]
  /\ UNCHANGED <<clientVars, call, queued, knowledgeList, selectedItemIds,
                 stopRetrainRef, isProcessing, status, summaries>>
  /\ UNCHANGED sideVars

\* the checkpoint is updated and the loop goes on with the next item
CheckpointAdvanced ==
  /\ run.pc = "checkpoint"
  /\ savedProgress' = [savedProgress EXCEPT
       !.exists = TRUE,
       !.lastProcessedId = run.targetItems[run.i + 1],
       !.totalItems = Len(run.targetItems),
       !.processedCount = run.i + 1]
  /\ run' = [run EXCEPT !.pc = "loop", !.i = run.i + 1]
  /\ UNCHANGED <<clientVars, call, queued, knowledgeList, selectedItemIds,
                 stopRetrainRef, isProcessing, status, summaries>>
  /\ UNCHANGED sideVars

\* a failure that is swallowed: the loop goes on with the next item
ItemFailed_skips ==
  /\ run.pc = "analyze"
  /\ call["retrain"].pc = "threw"
  /\ status' = "Error"
  /\ call' = [call EXCEPT !["retrain"] = IdleCall]
  /\ run' = [run EXCEPT !.pc = "loop", !.i = run.i + 1]
  /\ UNCHANGED <<clientVars, queued, knowledgeList, savedProgress,
                 selectedItemIds, stopRetrainRef, isProcessing, summaries>>
  /\ UNCHANGED sideVars

\* analyzeContent has thrown: the catch block and the finally block
ItemFailed ==
  /\ run.pc = "analyze"
  /\ call["retrain"].pc = "threw"
  /\ status' = "Error"
  /\ isProcessing' = FALSE
  /\ stopRetrainRef' = FinallyStop(queued, stopRetrainRef)
  /\ call' = [call EXCEPT !["retrain"] = IdleCall]
  /\ run' = [run EXCEPT !.pc = "ended"]
  /\ UNCHANGED <<clientVars, queued, knowledgeList, savedProgress,
                 selectedItemIds, summaries>>
  /\ UNCHANGED sideVars

\* a completion that leaves the checkpoint in place
RetrainComplete_keeps ==
  /\ run.pc = "loop"
  /\ run.i >= Len(run.targetItems)
  /\ status' = "Complete"
  /\ selectedItemIds' = IF queued THEN {} ELSE selectedItemIds
  /\ isProcessing' = FALSE
  /\ stopRetrainRef' = FinallyStop(queued, stopRetrainRef)
  /\ run' = [run EXCEPT !.pc = "ended"]
  /\ UNCHANGED <<clientVars, call, queued, knowledgeList, savedProgress,
                 summaries>>
  /\ UNCHANGED sideVars

\* the loop has run through: the checkpoint is removed, the selection cleared
RetrainComplete ==
  /\ run.pc = "loop"
  /\ run.i >= Len(run.targetItems)
  /\ status' = "Complete"
  /\ savedProgress' = NoProgress
  /\ selectedItemIds' = IF queued THEN {} ELSE selectedItemIds
  /\ isProcessing' = FALSE
  /\ stopRetrainRef' = FinallyStop(queued, stopRetrainRef)
  /\ run' = [run EXCEPT !.pc = "ended"]
  /\ UNCHANGED <<clientVars, call, queued, knowledgeList, summaries>>
  /\ UNCHANGED sideVars

\* executeRetrain has returned; its locals are gone
RetrainReturned ==
  /\ run.pc = "ended"
  /\ run' = IdleRun
  /\ summaries' = {}
  /\ UNCHANGED <<clientVars, call, queued, knowledgeList, savedProgress,
                 selectedItemIds, stopRetrainRef, isProcessing, status>>
  /\ UNCHANGED sideVars

\* a stop that ends the run on the spot, also in the middle of an item
StopClick_interrupts ==
  /\ isProcessing
  /\ ~stopRetrainRef
  /\ stopRetrainRef' = TRUE
  /\ status' = "Stopping"
  /\ run' = IF run.pc \in {"analyze", "checkpoint"}
              THEN [run EXCEPT !.pc = "ended", !.pausedAt = run.i]
              ELSE run
  /\ call' = [call EXCEPT !["retrain"] = IdleCall]
  /\ UNCHANGED <<clientVars, queued, knowledgeList, savedProgress,
                 selectedItemIds, isProcessing, summaries>>
  /\ UNCHANGED sideVars

\* handleStopRetrain: the button is the stop button while isProcessing
StopClick ==
  /\ isProcessing
  /\ ~stopRetrainRef
  /\ stopRetrainRef' = TRUE
  /\ status' = "Stopping"
  /\ UNCHANGED <<clientVars, call, queued, knowledgeList, savedProgress,
                 selectedItemIds, isProcessing, summaries, run>>
  /\ UNCHANGED sideVars

\* an item is deleted (handleDeleteKnowledge here, or in another session),
\* and the listener drops it from the list; a run works on the list of its
\* closure, so a deletion during a run has the effect of one after it
DeleteItem(id) ==
  /\ run.pc = "idle"
  /\ \E j \in 1..Len(knowledgeList) : knowledgeList[j] = id
  /\ knowledgeList' = SelectSeq(knowledgeList, LAMBDA k : k # id)
  /\ UNCHANGED <<clientVars, call, queued, savedProgress, selectedItemIds,
                 stopRetrainRef, isProcessing, status, summaries, run>>
  /\ UNCHANGED sideVars

\* toggleSelection of the queued version
ToggleSelection(id) ==
  /\ queued
  /\ run.pc = "idle"
  /\ \E j \in 1..Len(knowledgeList) : knowledgeList[j] = id
  /\ selectedItemIds' =
       IF id \in selectedItemIds THEN selectedItemIds \ {id}
       ELSE selectedItemIds \cup {id}
  /\ UNCHANGED <<clientVars, call, queued, knowledgeList, savedProgress,
                 stopRetrainRef, isProcessing, status, summaries, run>>
  /\ UNCHANGED sideVars

\* what follows the start of a run, and what happens around the runs
BatchSteps ==
  \/ SettingsLoaded
  \/ RetrainPaused
  \/ AnalyzeItem
  \/ Skip("retrain")
  \/ Attempt("retrain")
  \/ Succeed("retrain")
  \/ Fail("retrain")
  \/ Exhausted("retrain")
  \/ SummaryWritten
  \/ CheckpointAdvanced
  \/ ItemFailed
  \/ RetrainComplete
  \/ RetrainReturned
  \/ StopClick
  \/ \E id \in 1..MaxItems : DeleteItem(id)
  \/ \E id \in 1..MaxItems : ToggleSelection(id)
  \/ QuotaChange

BatchNext ==
  \/ ExecuteRetrain(TRUE)
  \/ ExecuteRetrain(FALSE)
  \/ BatchSteps

BatchSpec == BatchInit /\ [][BatchNext]_vars

\* ------------------------------------ one list through pauses and resumes
\* the external API changes the keys it accepts, but keeps accepting one
QuotaShift ==
  /\ \A c \in Calls : ~Busy(c)
  /\ \E v \in SUBSET NonBlank(apiKeys) : v # {} /\ v # valid /\ valid' = v
  /\ UNCHANGED <<apiKeysNull, apiKeys, currentKeyIndex, call>>
  /\ UNCHANGED batchVars
  /\ UNCHANGED sideVars

\* the list stays as it is, the settings hold several keys and the API
\* always accepts one of them, so no item fails; every call of
\* analyzeContent is logged
ResumeInit ==
  /\ apiKeysNull = FALSE
  /\ apiKeys \in RequestPools
  /\ currentKeyIndex = 0
  /\ valid \in SUBSET NonBlank(apiKeys)
  /\ valid # {}
  /\ call = [c \in Calls |-> IdleCall]
  /\ queued \in BOOLEAN
  /\ knowledgeList = SortedSeq(1..MaxItems)
  /\ savedProgress = NoProgress
  /\ selectedItemIds = {}
  /\ stopRetrainRef = FALSE
  /\ isProcessing = FALSE
  /\ status = ""
  /\ summaries = {}
  /\ run = IdleRun
  /\ SideIdle

ResumeNext ==
  \/ ExecuteRetrain(TRUE)
  \/ ExecuteRetrain(FALSE)
  \/ SettingsLoaded
  \/ RetrainPaused
  \/ AnalyzeItemLogged
  \/ Skip("retrain")
  \/ Attempt("retrain")
  \/ Succeed("retrain")
  \/ Fail("retrain")
  \/ SummaryWritten
  \/ CheckpointAdvanced
  \/ RetrainComplete
  \/ RetrainReturned
  \/ StopClick
  \/ QuotaShift

ResumeSpec == ResumeInit /\ [][ResumeNext]_vars

\* ------------------------------------ the page with its upload analysis
\* processingType === 'analyze': handleAnalyzeAndLearn is in flight (the page
\* is busy and no retrain run is)
Analyzing == ~queued /\ isProcessing /\ run.pc = "idle"

\* the ids no item of the list has
FreeIds == (1..MaxItems) \ IdsOf(knowledgeList)

\* the analyze button (disabled while isProcessing): handleAnalyzeAndLearn
\* up to the await of getSettings
AnalyzeAndLearn ==
  /\ ~queued
  /\ ~isProcessing
  /\ run.pc = "idle"
  /\ FreeIds # {}
  /\ isProcessing' = TRUE
  /\ status' = "Fetching"
  /\ UNCHANGED <<clientVars, call, queued, knowledgeList, savedProgress,
                 selectedItemIds, stopRetrainRef, summaries, run>>
  /\ UNCHANGED sideVars

\* the rest of handleAnalyzeAndLearn: without keys it ends with an error
\* status; else a client of its own calls analyzeContent, which returns when
\* the API accepts a key; then the entry is pushed and the listener puts it
\* in the list; the finally block leaves the stop flag as it is
AnalysisSettled ==
  /\ Analyzing
  /\ isProcessing' = FALSE
  /\ IF ~apiKeysNull /\ Len(apiKeys) > 0 /\ valid # {}
       THEN /\ \E id \in FreeIds :
                 knowledgeList' = SortedSeq(IdsOf(knowledgeList) \cup {id})
            /\ status' = "Analysis Complete"
       ELSE /\ status' = "Analysis Error"
            /\ UNCHANGED knowledgeList
  /\ UNCHANGED <<clientVars, call, queued, savedProgress, selectedItemIds,
                 stopRetrainRef, summaries, run>>
  /\ UNCHANGED sideVars

\* the confirm button on the page with the upload form; the run remembers
\* whether it found the stop flag standing
RetrainStarted(resume) == executeRetrain(resume, TRUE)

PageNext ==
  \/ RetrainStarted(TRUE)
  \/ RetrainStarted(FALSE)
  \/ BatchSteps
  \/ AnalyzeAndLearn
  \/ AnalysisSettled

PageSpec == BatchInit /\ [][PageNext]_vars

\* ------------------------------------------- the admin and the public chat
\* a reply is a sequence of pieces of text; these are the pieces a
\* [[SEND_IMAGE: id]] tag is made of
TagHead == "[[SEND_"
TagWord == "IMAGE:"
TagClose == "]]"

\* the knowledge the public page has loaded: an image item, a composite
\* item with two images, and a text item
knowledge ==
  <<[id |-> <<"1">>, imageData |-> <<"img1">>, images |-> <<>>],
    [id |-> <<"2">>, imageData |-> <<>>, images |-> <<"img2a", "img2b">>],
    [id |-> <<"3">>, imageData |-> <<>>, images |-> <<>>]>>

\* the number of white-space pieces of text from position p on
RECURSIVE SpacesFrom(_, _)
SpacesFrom(text, p) ==
  IF p <= Len(text) /\ text[p] = WS THEN 1 + SpacesFrom(text, p + 1) ELSE 0

\* the first position from q on that holds "]]", 0 when there is none
RECURSIVE CloseFrom(_, _)
CloseFrom(text, q) ==
  IF q > Len(text) THEN 0
  ELSE IF text[q] = TagClose THEN q ELSE CloseFrom(text, q + 1)

NoMatch == [found |-> FALSE, idFrom |-> 0, idTo |-> 0, end |-> 0]

\* \s*(.+?)\]\] from position from on: \s* takes k pieces of white space,
\* as many as it can get, (.+?) takes one piece or more, as few as it can
RECURSIVE IdAndClose(_, _, _)
IdAndClose(text, from, k) ==
  LET idStart == from + k
      close == CloseFrom(text, idStart + 1)
  IN IF idStart <= Len(text) /\ close # 0
       THEN [found |-> TRUE, idFrom |-> idStart, idTo |-> close - 1,
             end |-> close]
       ELSE IF k = 0 THEN NoMatch ELSE IdAndClose(text, from, k - 1)

\* /\[\[SEND_IMAGE:\s*(.+?)\]\]/ tried at position p
MatchAt(text, p) ==
  IF p + 1 <= Len(text) /\ text[p] = TagHead /\ text[p + 1] = TagWord
    THEN IdAndClose(text, p + 2, SpacesFrom(text, p + 2))
    ELSE NoMatch

\* the exec loop of the global expression: the matches from position p on,
\* each search starting behind the match before
RECURSIVE Matches(_, _)
Matches(text, p) ==
  IF p > Len(text) THEN <<>>
  ELSE LET m == MatchAt(text, p)
       IN IF m.found THEN <<m>> \o Matches(text, m.end + 1)
          ELSE Matches(text, p + 1)

\* knowledge.find(i => i.id === id), then its imageData and its images
ImagesOf(id) ==
  LET hits == SelectSeq(knowledge, LAMBDA k : k.id = id)
  IN IF hits = <<>> THEN <<>> ELSE hits[1].imageData \o hits[1].images

\* modelImagesToSend after the loop over the matches
RECURSIVE ImagesToSend(_, _)
ImagesToSend(text, ms) ==
  IF ms = <<>> THEN <<>>
  ELSE ImagesOf(SubSeq(text, Head(ms).idFrom, Head(ms).idTo))
         \o ImagesToSend(text, Tail(ms))

\* responseText.replace(sendImageRegex, ''): one pass from position p on,
\* every match left out
RECURSIVE replace(_, _)
replace(text, p) ==
  IF p > Len(text) THEN <<>>
  ELSE LET m == MatchAt(text, p)
       IN IF m.found THEN replace(text, m.end + 1)
          ELSE <<text[p]>> \o replace(text, p + 1)

\* a message of a chat session; images is Null when there are none
ChatMessage(role, text, images) ==
  [role |-> role, text |-> text,
   images |-> IF images = <<>> THEN Null ELSE images]

\* the message the public page pushes for a reply
PublicReply(responseText) ==
  ChatMessage("model", trim(replace(responseText, 1)),
              ImagesToSend(responseText, Matches(responseText, 1)))

\* the pieces replies are put together from: a tag for each of three known
\* ids and for an unknown one, a tag with a blank behind its id, the head
\* and the rest of a tag, a word, a blank
ReplyPieces ==
  {<<TagHead, TagWord, WS, id, TagClose>> : id \in {"1", "2", "3", "9"}}
  \cup {<<TagHead, TagWord, "1", WS, TagClose>>,
        <<TagHead>>,
        <<TagWord, WS, "2", TagClose>>,
        <<"t">>,
        <<WS>>}

\* largest number of such pieces in a reply
MaxPieces == 3

RECURSIVE Flatten(_)
Flatten(ps) == IF ps = <<>> THEN <<>> ELSE Head(ps) \o Flatten(Tail(ps))

\* the texts chatWithAgent can return
Texts == UNION {{Flatten(ps) : ps \in [1..n -> ReplyPieces]} : n \in 0..MaxPieces}

\* the texts the replies of a longer conversation are drawn from
Replies == {<<"t">>, <<"t", WS, TagHead, TagWord, WS, "1", TagClose>>}

\* the files a send can carry
ChatFiles == {<<>>} \cup {<<f>> : f \in Files}

\* "Error: Please configure API Keys in Settings first." and
\* "System Error: Service unavailable."
SettingsErrorText(page) ==
  IF page = "admin" THEN <<"Error: Please configure API Keys in Settings first.">>
  ELSE <<"System Error: Service unavailable.">>

\* "Error: Failed to connect to AI Agent." and
\* "Sorry, I am having trouble connecting right now."
FailureText(page) ==
  IF page = "admin" THEN ErrorText
  ELSE <<"Sorry, I am having trouble connecting right now.">>

\* the data URLs stored with the user message
Base64Images(files) ==
  [j \in 1..Len(files) |->
     LET part == fileToGenerativePart(files[j])
     IN <<"data:", part.inlineData.mimeType, ";base64,", part.inlineData.data>>]

\* the user turns of the session
UserTurns == Len(SelectSeq(chat.messages, LAMBDA m : m.role = "user"))

\* handleSend up to the await of the settings: the files are converted for
\* storage (a file that cannot be read rejects, and the handler ends there)
\* and the user message is pushed; the admin page disables the input while
\* isTyping
ChatSend(files) ==
  /\ chat.pc = "idle"
  /\ call["chat"].pc = "idle"
  /\ chat.page = "admin" => ~chat.isTyping
  /\ UserTurns < MaxTurns
  /\ IF \A j \in 1..Len(files) : files[j].readable
       THEN chat' = [chat EXCEPT
              !.pc = "settings",
              !.isTyping = TRUE,
              !.filesToSend = files,
              !.messages = Append(@, ChatMessage("user", <<"input">>,
                                                 Base64Images(files)))]
       ELSE chat' = [chat EXCEPT !.pc = "rejected", !.isTyping = TRUE,
                                 !.error = ReadError]
  /\ UNCHANGED <<clientVars, call>>
  /\ UNCHANGED batchVars
  /\ UNCHANGED <<invoked, trainingQueue>>

\* the settings check: the admin page also refuses an empty key list
SettingsMissing(page) ==
  apiKeysNull \/ (page = "admin" /\ Len(apiKeys) = 0)

\* the settings have arrived: without keys the error text is pushed and the
\* handler returns; else a client is made and chatWithAgent is called
SettingsFetched ==
  /\ chat.pc = "settings"
  /\ IF SettingsMissing(chat.page)
       THEN /\ chat' = [chat EXCEPT
                 !.pc = "returned",
                 !.isTyping = FALSE,
                 !.messages = Append(@, ChatMessage("model",
                                 SettingsErrorText(chat.page), <<>>))]
            /\ UNCHANGED <<currentKeyIndex, call>>
       ELSE /\ chat' = [chat EXCEPT !.pc = "calling"]
            /\ currentKeyIndex' = 0
            /\ call' = [call EXCEPT !["chat"] =
                 [IdleCall EXCEPT !.pc = "prepare", !.files = chat.filesToSend]]
  /\ UNCHANGED <<apiKeysNull, apiKeys, valid>>
  /\ UNCHANGED batchVars
  /\ UNCHANGED <<invoked, trainingQueue>>

\* chatWithAgent has returned a text
ChatReplied(responseText) ==
  /\ chat.pc = "calling"
  /\ call["chat"].pc = "returned"
  /\ chat' = [chat EXCEPT !.pc = "replied", !.responseText = responseText]
  /\ call' = [call EXCEPT !["chat"] = IdleCall]
  /\ UNCHANGED clientVars
  /\ UNCHANGED batchVars
  /\ UNCHANGED <<invoked, trainingQueue>>

\* the reply is pushed (the public page takes the tags out and attaches
\* their images), and the finally block clears isTyping
ReplyPersisted ==
  /\ chat.pc = "replied"
  /\ chat' = [chat EXCEPT
       !.pc = "returned",
       !.isTyping = FALSE,
       !.messages = Append(@,
          IF chat.page = "public" THEN PublicReply(chat.responseText)
          ELSE ChatMessage("model", chat.responseText, <<>>))]
  /\ UNCHANGED <<clientVars, call>>
  /\ UNCHANGED batchVars
  /\ UNCHANGED <<invoked, trainingQueue>>

\* a catch block that pushes nothing
ChatFailed_silent ==
  /\ chat.pc = "calling"
  /\ call["chat"].pc = "threw"
  /\ chat' = [chat EXCEPT !.pc = "returned", !.isTyping = FALSE,
                          !.error = call["chat"].thrown]
  /\ call' = [call EXCEPT !["chat"] = IdleCall]
  /\ UNCHANGED clientVars
  /\ UNCHANGED batchVars
  /\ UNCHANGED <<invoked, trainingQueue>>

\* chatWithAgent has thrown: the catch block pushes the error text, the
\* finally block clears isTyping
ChatFailed ==
  /\ chat.pc = "calling"
  /\ call["chat"].pc = "threw"
  /\ chat' = [chat EXCEPT
       !.pc = "returned",
       !.isTyping = FALSE,
       !.error = call["chat"].thrown,
       !.messages = Append(@, ChatMessage("model", FailureText(chat.page),
                                          <<>>))]
  /\ call' = [call EXCEPT !["chat"] = IdleCall]
  /\ UNCHANGED clientVars
  /\ UNCHANGED batchVars
  /\ UNCHANGED <<invoked, trainingQueue>>

\* handleSend has returned or has ended with the rejection
ChatReturned ==
  /\ chat.pc \in {"returned", "rejected"}
  /\ chat' = [chat EXCEPT !.pc = "idle", !.filesToSend = <<>>,
                          !.responseText = <<>>, !.error = Undefined]
  /\ UNCHANGED <<clientVars, call>>
  /\ UNCHANGED batchVars
  /\ UNCHANGED <<invoked, trainingQueue>>

\* the page state while only a chat page is exercised
ChatIdle ==
  /\ invoked = <<>>
  /\ trainingQueue = <<>>
  /\ queued = FALSE
  /\ knowledgeList = <<>>
  /\ savedProgress = NoProgress
  /\ selectedItemIds = {}
  /\ stopRetrainRef = FALSE
  /\ isProcessing = FALSE
  /\ status = ""
  /\ summaries = {}
  /\ run = IdleRun

ChatInit ==
  /\ apiKeysNull \in BOOLEAN
  /\ apiKeys \in RetrainPools
  /\ apiKeysNull => apiKeys = <<>>
  /\ currentKeyIndex = 0
  /\ valid \in SUBSET NonBlank(apiKeys)
  /\ call = [c \in Calls |-> IdleCall]
  /\ chat \in {[IdleChat EXCEPT !.page = page] : page \in {"admin", "public"}}
  /\ ChatIdle

\* the steps of a handler and of its call
ChatStep ==
  \/ SettingsFetched
  \/ Convert("chat")
  \/ Prepared("chat")
  \/ Skip("chat")
  \/ Attempt("chat")
  \/ Succeed("chat")
  \/ Fail("chat")
  \/ Exhausted("chat")
  \/ \E responseText \in Replies : ChatReplied(responseText)
  \/ ReplyPersisted
  \/ ChatFailed
  \/ ChatReturned

ChatNext ==
  \/ \E files \in ChatFiles : ChatSend(files)
  \/ ChatStep
  \/ QuotaChange

ChatSpec == ChatInit /\ [][ChatNext]_vars

\* every promise a handler awaits settles, and its continuation runs
ChatFairSpec == ChatSpec /\ WF_vars(ChatStep)

\* chatWithAgent of the public page has returned some text
TagInit ==
  /\ apiKeysNull = FALSE
  /\ apiKeys = <<<<"k">>>>
  /\ currentKeyIndex = 0
  /\ valid = {0}
  /\ call = [c \in Calls |-> IdleCall]
  /\ \E responseText \in Texts :
       chat = [IdleChat EXCEPT
                 !.page = "public",
                 !.pc = "replied",
                 !.isTyping = TRUE,
                 !.messages = <<ChatMessage("user", <<"input">>, <<>>)>>,
                 !.responseText = responseText]
  /\ ChatIdle

TagNext == ReplyPersisted

TagSpec == TagInit /\ [][TagNext]_vars

\* ------------------------------------ the queued page with its upload queue
\* largest number of entries of the upload queue
MaxQueue == 2

\* the positions of the queue whose entry has the given status
WithStatus(q, st) == {j \in 1..Len(q) : q[j] = st}

\* a retrain run is in flight
RetrainActive == run.pc \in {"getSettings", "loop", "analyze", "checkpoint"}

\* the effect on [trainingQueue, isProcessingQueue] has work to do: it runs
\* after the render that follows a state change, before the next click
EffectPending ==
  queued /\ ~isProcessing /\ WithStatus(trainingQueue, "pending") # {}

\* the add button: a pending entry is appended (every entry adds an item to
\* the list when it completes, so entries are taken while ids are left)
handleAddToQueue ==
  /\ queued
  /\ ~EffectPending
  /\ Len(trainingQueue) < MaxQueue
  /\ Cardinality(WithStatus(trainingQueue, "pending")
                 \cup WithStatus(trainingQueue, "processing"))
       < Cardinality(FreeIds)
  /\ trainingQueue' = Append(trainingQueue, "pending")
  /\ UNCHANGED <<clientVars, call, invoked, chat>>
  /\ UNCHANGED batchVars

\* the effect: with nothing in work, the first pending entry is marked
\* processing and processTrainingItem is called for it
processNextInQueue ==
  /\ EffectPending
  /\ LET pending == CHOOSE j \in WithStatus(trainingQueue, "pending") :
                       \A k \in WithStatus(trainingQueue, "pending") : j <= k
     IN trainingQueue' = [trainingQueue EXCEPT ![pending] = "processing"]
  /\ isProcessing' = TRUE
  /\ status' = "Queue"
  /\ UNCHANGED <<clientVars, call, queued, knowledgeList, savedProgress,
                 selectedItemIds, stopRetrainRef, summaries, run, invoked,
                 chat>>

\* processTrainingItem has settled for entry j: completed, with its entry
\* pushed to the knowledge list, when there are keys and the API accepts
\* one; else error; the finally block clears isProcessingQueue
QueueItemSettled(j) ==
  /\ queued
  /\ j \in WithStatus(trainingQueue, "processing")
  /\ IF ~apiKeysNull /\ Len(apiKeys) > 0 /\ valid # {}
       THEN /\ trainingQueue' = [trainingQueue EXCEPT ![j] = "completed"]
            /\ \E id \in FreeIds :
                 knowledgeList' = SortedSeq(IdsOf(knowledgeList) \cup {id})
       ELSE /\ trainingQueue' = [trainingQueue EXCEPT ![j] = "error"]
            /\ UNCHANGED knowledgeList
  /\ isProcessing' = FALSE
  /\ status' = ""
  /\ UNCHANGED <<clientVars, call, queued, savedProgress, selectedItemIds,
                 stopRetrainRef, summaries, run, invoked, chat>>

\* the timer set at completion removes the completed entry
QueueItemRemoved(j) ==
  /\ j \in WithStatus(trainingQueue, "completed")
  /\ trainingQueue' = [k \in 1..(Len(trainingQueue) - 1) |->
                         IF k < j THEN trainingQueue[k]
                         ELSE trainingQueue[k + 1]]
  /\ UNCHANGED <<clientVars, call, invoked, chat>>
  /\ UNCHANGED batchVars

\* the button of the selection bar: handleRetrainClick whatever is in work,
\* then the confirm button of the modal, executeRetrain(false)
RetrainSelected ==
  /\ queued
  /\ ~EffectPending
  /\ selectedItemIds # {}
  /\ run.pc = "idle"
  /\ knowledgeList # <<>>
  /\ stopRetrainRef' = FALSE
  /\ isProcessing' = TRUE
  /\ status' = "Initializing"
  /\ summaries' = {}
  /\ run' = [IdleRun EXCEPT
       !.pc = "getSettings",
       !.resume = FALSE,
       !.targetItems = TargetItems(queued, knowledgeList, selectedItemIds),
       !.selected = selectedItemIds,
       !.closure = NoProgress]
  /\ invoked' = <<>>
  /\ UNCHANGED <<clientVars, call, queued, knowledgeList, savedProgress,
                 selectedItemIds, trainingQueue, chat>>

\* the header button while nothing is in work: handleRetrainClick, then
\* the confirm button of the modal
RetrainAll ==
  /\ queued
  /\ ~EffectPending
  /\ ExecuteRetrain(FALSE)

\* an item of the list is clicked
SelectionToggled(id) ==
  /\ ~EffectPending
  /\ ToggleSelection(id)

QueueInit ==
  /\ BatchInit
  /\ queued

\* clicks come after the pending effect; continuations and timers at any time
QueueNext ==
  \/ processNextInQueue
  \/ \E j \in 1..MaxQueue : QueueItemSettled(j)
  \/ \E j \in 1..MaxQueue : QueueItemRemoved(j)
  \/ handleAddToQueue
  \/ RetrainSelected
  \/ RetrainAll
  \/ StopClick
  \/ \E id \in 1..MaxItems : SelectionToggled(id)
  \/ SettingsLoaded
  \/ RetrainPaused
  \/ AnalyzeItem
  \/ Skip("retrain")
  \/ Attempt("retrain")
  \/ Succeed("retrain")
  \/ Fail("retrain")
  \/ Exhausted("retrain")
  \/ SummaryWritten
  \/ CheckpointAdvanced
  \/ ItemFailed
  \/ RetrainComplete
  \/ RetrainReturned

QueueSpec == QueueInit /\ [][QueueNext]_vars

TypeOK ==
  /\ apiKeysNull \in BOOLEAN
  /\ apiKeys \in Pools
  /\ currentKeyIndex \in 0..MaxKeys
  /\ valid \subseteq NonBlank(apiKeys)
  /\ \A c \in Calls :
       call[c].pc \in {"idle", "prepare", "loop", "await", "returned", "threw"}
  /\ queued \in BOOLEAN
  /\ knowledgeList \in KnowledgeLists
  /\ savedProgress.exists \in BOOLEAN
  /\ savedProgress.lastProcessedId \in 0..MaxItems
  /\ savedProgress.processedCount \in 0..MaxItems
  /\ selectedItemIds \subseteq 1..MaxItems
  /\ stopRetrainRef \in BOOLEAN
  /\ isProcessing \in BOOLEAN
  /\ status \in {"", "Fetching", "Analysis Complete", "Analysis Error", "Queue",
                "Initializing", "Re-analyzing", "Stopping", "Paused",
                 "Complete", "Error"}
  /\ run.pc \in {"idle", "getSettings", "loop", "analyze", "checkpoint", "ended"}

\* ------------------------------------------------- the claimed properties
\* the candidate order the claims speak of: k, then each successor, wrapping
RECURSIVE OrderFrom(_, _, _)
OrderFrom(x, n, len) ==
  IF len = 0 THEN <<>>
  ELSE <<x>> \o OrderFrom(IF x = n - 1 THEN 0 ELSE x + 1, n, len - 1)

CandidateOrder(k, n) == OrderFrom(k, n, n)

\* the prefix of s that ends with the first occurrence of x
RECURSIVE UpTo(_, _)
UpTo(s, x) ==
  IF s = <<>> THEN <<>>
  ELSE IF Head(s) = x THEN <<x>> ELSE <<Head(s)>> \o UpTo(Tail(s), x)

\* the first index of the candidate order that the API accepts
FirstValid(k, n, v) ==
  Head(SelectSeq(CandidateOrder(k, n), LAMBDA x : x \in v))

NonBlankOf(s) == SelectSeq(s, LAMBDA x : ~IsBlank(apiKeys[x + 1]))

PoolPresent == ~apiKeysNull /\ Len(apiKeys) > 0

Ended(c) == call[c].pc \in {"returned", "threw"}

\* C1: with a non-empty pool that holds a valid key, a call returns the
\* result of the first valid key in circular order from the index it started
\* with, the sticky index becomes that key's index, and the attempts are the
\* non-blank candidates up to that key and no candidate after it.
C1_FirstValidWins ==
  \A c \in Calls :
    (Ended(c) /\ PoolPresent /\ valid # {}) =>
      LET f == FirstValid(call[c].startIndex, Len(apiKeys), valid)
          pre == UpTo(CandidateOrder(call[c].startIndex, Len(apiKeys)), f)
      IN /\ call[c].pc = "returned"
         /\ call[c].returned = f
         /\ currentKeyIndex = f
         /\ call[c].visited = pre
         /\ call[c].attempts = NonBlankOf(pre)

\* a call that started at a later index, failed twice and succeeded after
\* wrapping around the end of the pool
C1_Witness ==
  /\ call["chat"].pc = "returned"
  /\ call["chat"].startIndex > 0
  /\ call["chat"].returned < call["chat"].startIndex
  /\ Len(call["chat"].attempts) >= 2
  /\ currentKeyIndex = call["chat"].returned

\* C2: when no key of the pool is valid, a call fails only after it has
\* attempted every non-blank candidate exactly once, in circular order from
\* the index it started with.
C2_AllTriedInOrder ==
  \A c \in Calls :
    (call[c].pc = "threw" /\ PoolPresent /\ valid = {}) =>
      /\ call[c].attempts =
           NonBlankOf(CandidateOrder(call[c].startIndex, Len(apiKeys)))
      /\ \A x \in NonBlank(apiKeys) :
           Cardinality({j \in 1..Len(call[c].attempts) : call[c].attempts[j] = x}) = 1

C2_Witness ==
  /\ call["chat"].pc = "threw"
  /\ valid = {}
  /\ call["chat"].startIndex > 0
  /\ Len(call["chat"].attempts) >= 2
  /\ Len(call["chat"].attempts) < Len(apiKeys)

\* C3: with a missing or empty pool a call fails at once with the
\* configuration error: no key is attempted, no rotation event is
\* dispatched and the sticky index keeps its value; the loop is never entered.
C3_NoKeysFailsFast ==
  \A c \in Calls :
    (Busy(c) /\ ~PoolPresent) =>
      /\ call[c].pc = "threw"
      /\ call[c].thrown = NoKeysError
      /\ call[c].attempts = <<>>
      /\ call[c].visited = <<>>
      /\ call[c].events = <<>>
      /\ currentKeyIndex = call[c].startIndex

C3_Witness ==
  /\ call["chat"].pc = "threw"
  /\ ~apiKeysNull
  /\ apiKeys = <<>>
  /\ call["chat"].thrown = NoKeysError

\* the loop of call c has ended without a return
ExitedLoop(c) == call[c].pc = "threw" /\ PoolPresent

Last(s) == s[Len(s)]

C5_Original ==
  \A c \in Calls :
    call[c].pc = "returned" =>
      Len(call[c].events) = Len(call[c].attempts) - 1

\* C6: every rotation event is dispatched in an iteration past the first
\* (i > 0), before the attempt of that iteration, and carries the 0-based
\* pool index of the key about to be tried plus one.
C6_EventPayload ==
  \A c \in Calls :
    \A j \in 1..Len(call[c].events) :
      LET e == call[c].events[j] IN
        /\ e.i > 0
        /\ e.i + 1 <= Len(call[c].visited)
        /\ e.index = call[c].visited[e.i + 1] + 1
        /\ e.index \in 1..Len(apiKeys)
        /\ ~IsBlank(apiKeys[e.index])
        /\ e.before + 1 <= Len(call[c].attempts)
        /\ call[c].attempts[e.before + 1] = e.index - 1

\* two events in one call, the second for a key before the starting index
C6_Witness ==
  /\ Len(call["chat"].events) = 2
  /\ call["chat"].events[2].index - 1 < call["chat"].startIndex
  /\ call["chat"].events[1].index = Len(apiKeys)

\* C7: the indices one call visits, started with sticky index k over n keys,
\* are a prefix of [k, (k+1) mod n, ..., (k+n-1) mod n]; a call that runs
\* the loop to its end has visited exactly that sequence, of length n, with
\* every pool index once.
C7_CandidateOrder ==
  \A c \in Calls :
    (Busy(c) /\ PoolPresent) =>
      LET n == Len(apiKeys)
          v == call[c].visited
      IN /\ Len(v) <= n
         /\ v = SubSeq(CandidateOrder(call[c].startIndex, n), 1, Len(v))
         /\ \A a, b \in 1..Len(v) : a # b => v[a] # v[b]
         /\ call[c].pc = "threw" =>
              /\ Len(v) = n
              /\ {v[j] : j \in 1..n} = 0..(n - 1)

C7_Witness ==
  /\ call["chat"].pc = "threw"
  /\ Len(apiKeys) = 3
  /\ call["chat"].startIndex = 1
  /\ call["chat"].visited = <<1, 2, 0>>

\* C8: the sticky index changes only in the step in which an attempt
\* succeeds, and becomes the index of that attempt; a call that fails ends
\* with the sticky index it started with; no step changes the pool.
C8_StickyIndexFrame ==
  /\ [][/\ apiKeys' = apiKeys
        /\ apiKeysNull' = apiKeysNull
        /\ currentKeyIndex' # currentKeyIndex =>
             \E c \in Calls :
               /\ call[c].pc = "await"
               /\ call'[c].pc = "returned"
               /\ currentKeyIndex' = call[c].indexToCheck
               /\ call[c].indexToCheck \in valid]_vars
  /\ [](\A c \in Calls :
          call[c].pc = "threw" => currentKeyIndex = call[c].startIndex)

\* a failed call that started at a later index and tried several keys
C8_Witness ==
  /\ call["chat"].pc = "threw"
  /\ Len(call["chat"].attempts) >= 2
  /\ call["chat"].startIndex > 0
  /\ currentKeyIndex = call["chat"].startIndex

\* C9: a resumed run whose checkpoint names item X starts at index j + 1 when
\* X is at index j of the run's target list, and at index 0 when X is not in
\* that list; the first item the run processes is the one at that index.
C9_ResumeStart ==
  (run.resume /\ run.startIndex # -1) =>
    LET X == run.closure.lastProcessedId
        T == run.targetItems
        pos == {j \in 1..Len(T) : T[j] = X}
    IN /\ pos # {} => \E j \in pos : run.startIndex = j
       /\ pos = {} => run.startIndex = 0
       /\ run.i >= run.startIndex
       /\ run.attempted # <<>> => run.attempted[1] = run.startIndex

\* items 1 and 2 of three were processed, item 1 was then deleted, and the
\* resumed run finds item 2 at index 0 and goes on with item 3 at index 1
C9_Witness ==
  /\ run.resume
  /\ run.closure.lastProcessedId = 2
  /\ run.closure.totalItems = 3
  /\ run.targetItems = <<2, 3>>
  /\ run.startIndex = 1
  /\ run.attempted = <<1>>

Processed(r, i) == [j \in 1..(i - r.startIndex) |-> r.startIndex + j - 1]

C12_FailureAborts ==
  /\ [][(run.pc = "analyze" /\ call["retrain"].pc = "threw" /\ run' # run) =>
          /\ run'.pc = "ended"
          /\ run'.i = run.i
          /\ run'.attempted = run.attempted
          /\ status' = "Error"
          /\ savedProgress' = savedProgress
          /\ summaries' = summaries]_vars
  /\ []((run.pc = "ended" /\ status = "Error") =>
          LET f == run.i
              T == run.targetItems
          IN /\ f < Len(T)
             /\ run.attempted = Processed(run, f + 1)
             /\ T[f + 1] \notin summaries
             /\ savedProgress.exists
             /\ savedProgress.lastProcessedId # T[f + 1]
             /\ f > 0 => savedProgress.lastProcessedId = T[f]
             /\ f = 0 => \A j \in 1..Len(T) : T[j] # savedProgress.lastProcessedId
             /\ f > run.startIndex => savedProgress.processedCount = f
             /\ StartIndex(TRUE, savedProgress, T) = f
             /\ call["retrain"].pc = "idle"
             /\ ~isProcessing)

\* a run over three items whose first item succeeded and whose second failed
C12_Witness ==
  /\ run.pc = "ended"
  /\ status = "Error"
  /\ Len(run.targetItems) = 3
  /\ run.i = 1
  /\ run.attempted = <<0, 1>>
  /\ savedProgress.lastProcessedId = run.targetItems[1]
  /\ summaries = {run.targetItems[1]}

\* p is the record a fresh run r starts with: nothing processed, the length
\* of r's target list, and r's selection when r works on one
IsFreshFor(p, r) ==
  /\ p.exists
  /\ p.lastProcessedId = 0
  /\ p.processedCount = 0
  /\ p.totalItems = Len(r.targetItems)
  /\ IF queued /\ r.selected # {}
       THEN p.targetIds = r.selected /\ IdsOf(r.targetItems) \subseteq p.targetIds
       ELSE p.targetIds = {}

\* C13: a run started with resume = false writes, before its first item is
\* attempted, a checkpoint with processedCount 0, the empty id, the length of
\* its target list and its selection (none when it works on the whole list),
\* and that record stands until the first item is through; a run started
\* with resume = true leaves the checkpoint as it found it.
C13_FreshCheckpoint ==
  /\ [][(run.pc = "getSettings" /\ run'.pc = "loop") =>
          /\ run'.attempted = <<>>
          /\ summaries' = {}
          /\ IF run.resume THEN savedProgress' = savedProgress
                           ELSE IsFreshFor(savedProgress', run)]_vars
  /\ [][(~run.resume /\ run.attempted = <<>> /\ run'.attempted # <<>>) =>
          IsFreshFor(savedProgress, run)]_vars
  /\ []((~run.resume /\ run.pc \in {"loop", "analyze", "checkpoint"} /\ run.i = 0) =>
          IsFreshFor(savedProgress, run))
  /\ []((run.resume /\ run.pc = "loop" /\ run.i = run.startIndex) =>
          savedProgress = run.closure)

\* a fresh run over two selected items of three that is analysing the first
C13_Witness ==
  /\ ~run.resume
  /\ run.pc = "analyze"
  /\ run.i = 0
  /\ Len(knowledgeList) = 3
  /\ Len(run.targetItems) = 2
  /\ savedProgress.targetIds = IdsOf(run.targetItems)
  /\ savedProgress.totalItems = 2
  /\ savedProgress.processedCount = 0

\* C14: every write of the checkpoint is made by a run, and leaves in
\* lastProcessedId either the empty id or the id of an item of that run's
\* target list; while a run that has written the checkpoint is under way the
\* record names the empty id or an item of its target list.  (No other step
\* changes the record, so this holds of every record that exists.)
C14_CheckpointNamesTargetItem ==
  /\ [][(savedProgress' # savedProgress /\ savedProgress'.exists) =>
          /\ run.pc \in {"getSettings", "checkpoint"}
          /\ run'.targetItems = run.targetItems
          /\ \/ savedProgress'.lastProcessedId = 0
             \/ savedProgress'.lastProcessedId \in IdsOf(run.targetItems)]_vars
  /\ []((/\ savedProgress.exists
          /\ run.startIndex # -1
          /\ (~run.resume \/ run.i > run.startIndex)) =>
          \/ savedProgress.lastProcessedId = 0
          \/ savedProgress.lastProcessedId \in IdsOf(run.targetItems))

\* a resumed run over a selection that is smaller than the list has advanced
\* the checkpoint to an item of the selection
C14_Witness ==
  /\ run.resume
  /\ run.pc = "loop"
  /\ run.i > run.startIndex
  /\ Len(run.targetItems) < Len(knowledgeList)
  /\ savedProgress.exists
  /\ savedProgress.lastProcessedId = run.targetItems[run.i]
  /\ savedProgress.lastProcessedId # run.closure.lastProcessedId

\* C15 as stated: with two calls in flight on one client, each call still
\* attempts every non-blank key at most once, in circular order from the
\* sticky index it started with.
C15_Original ==
  \A c \in Calls :
    (Busy(c) /\ PoolPresent) =>
      LET order == NonBlankOf(CandidateOrder(call[c].startIndex, Len(apiKeys)))
          a == call[c].attempts
      IN /\ \A x, y \in 1..Len(a) : x # y => a[x] # a[y]
         /\ Len(a) <= Len(order)
         /\ a = SubSeq(order, 1, Len(a))

\* a key that is empty or made of white space only
AllWhite(key) == \A j \in 1..Len(key) : key[j] = WS

\* the pool indices that hold such a key
WhiteIndices == {x \in 0..(Len(apiKeys) - 1) : AllWhite(apiKeys[x + 1])}

Positions(n) == [j \in 1..n |-> j]

\* C17: in one request every file is converted at most once and only while
\* the parts are prepared, before any key is attempted; a request that has
\* reached the key loop has converted each of its files exactly once,
\* however many keys it tries, its parts are the text part followed by one
\* inline part per file in order, and every attempt has sent those same
\* parts.
C17_ConvertedOnce ==
  /\ [](\A c \in Calls :
          LET r == call[c] IN
            /\ Len(r.converted) <= Len(r.files)
            /\ r.converted = Positions(Len(r.converted))
            /\ r.startIndex # -1 =>
                 /\ r.converted = Positions(Len(r.files))
                 /\ Len(r.parts) = Len(r.files) + 1
                 /\ r.parts[1] = TextPart
                 /\ \A j \in 1..Len(r.files) :
                      /\ r.parts[j + 1].inlineData.mimeType = r.files[j].type
                      /\ r.parts[j + 1].inlineData.data = <<Base64(r.files[j].bytes)>>
            /\ Len(r.sent) = Len(r.attempts)
            /\ \A j \in 1..Len(r.sent) : r.sent[j] = r.parts
            /\ r.startIndex = -1 => r.attempts = <<>>)
  /\ [][\A c \in Calls :
          Len(call'[c].converted) > Len(call[c].converted) =>
            /\ call[c].pc = "prepare"
            /\ call[c].attempts = <<>>
            /\ Len(call'[c].converted) = Len(call[c].converted) + 1]_vars
  /\ [][\A c \in Calls :
          (call[c].startIndex # -1 /\ call'[c].pc # "idle") =>
            /\ call'[c].parts = call[c].parts
            /\ call'[c].converted = call[c].converted]_vars

\* a request with two files whose third attempt succeeded: two conversions,
\* three attempts with the same three parts
C17_Witness ==
  /\ call["chat"].pc = "returned"
  /\ Len(call["chat"].files) = 2
  /\ call["chat"].files[1] # call["chat"].files[2]
  /\ call["chat"].converted = <<1, 2>>
  /\ Len(call["chat"].attempts) = 3
  /\ Len(call["chat"].sent) = 3
  /\ Len(call["chat"].sent[3]) = 3

\* C18: for each item the client call comes first, then the write of the
\* summary, then the advance of the checkpoint: a summary is written only
\* when the call of that item has returned, and the checkpoint moves to an
\* item only when that item's summary is written; so while a run is under
\* way every item the checkpoint counts as processed by it has its summary
\* written, and the checkpoint is never ahead of the summaries.
C18_SummaryBeforeCheckpoint ==
  /\ [][(summaries' # summaries /\ summaries' # {}) =>
          /\ run.pc = "analyze"
          /\ call["retrain"].pc = "returned"
          /\ Last(run.attempted) = run.i
          /\ summaries' = summaries \cup {run.targetItems[run.i + 1]}
          /\ savedProgress' = savedProgress]_vars
  /\ [][(savedProgress' # savedProgress /\ savedProgress'.lastProcessedId # 0) =>
          /\ run.pc = "checkpoint"
          /\ savedProgress'.lastProcessedId = run.targetItems[run.i + 1]
          /\ savedProgress'.lastProcessedId \in summaries
          /\ summaries' = summaries]_vars
  /\ []((run.pc = "checkpoint") =>
          /\ run.targetItems[run.i + 1] \in summaries
          /\ savedProgress.lastProcessedId # run.targetItems[run.i + 1])
  /\ []((savedProgress.exists /\ run.startIndex # -1 /\ run.i > run.startIndex) =>
          /\ savedProgress.lastProcessedId = run.targetItems[run.i]
          /\ \A j \in (run.startIndex + 1)..run.i : run.targetItems[j] \in summaries)

\* the summary of the second item is written and the checkpoint still names
\* the first
C18_Witness ==
  /\ run.pc = "checkpoint"
  /\ run.i = 1
  /\ run.startIndex = 0
  /\ summaries = {run.targetItems[1], run.targetItems[2]}
  /\ savedProgress.lastProcessedId = run.targetItems[1]
  /\ savedProgress.processedCount = 1

\* C19 as stated: every advance of the checkpoint sets lastProcessedId to
\* the id of the item and makes processedCount exactly one more than the
\* count the checkpoint held before, in fresh and in resumed runs alike.
C19_Original ==
  [][(run.pc = "checkpoint" /\ run'.pc = "loop") =>
       /\ savedProgress'.lastProcessedId = run.targetItems[run.i + 1]
       /\ savedProgress'.processedCount = savedProgress.processedCount + 1]_vars

\* C19 as amended: every advance of the checkpoint sets lastProcessedId to
\* the id of the item, processedCount to the index of the item in the run's
\* target list plus one, and totalItems to the length of that list; this is
\* one more than the stored count for every item of a fresh run and for
\* every item after the first of a resumed run, while the first advance of a
\* resumed run sets the start index plus one whatever count was stored.
C19_CountIsPosition ==
  /\ [][(run.pc = "checkpoint" /\ run'.pc = "loop") =>
          /\ savedProgress'.exists
          /\ savedProgress'.lastProcessedId = run.targetItems[run.i + 1]
          /\ savedProgress'.processedCount = run.i + 1
          /\ savedProgress'.totalItems = Len(run.targetItems)
          /\ savedProgress'.targetIds = savedProgress.targetIds
          /\ (~run.resume \/ run.i > run.startIndex) =>
               savedProgress'.processedCount = savedProgress.processedCount + 1
          /\ (run.resume /\ run.i = run.startIndex) =>
               savedProgress'.processedCount = run.startIndex + 1]_vars
  /\ []((savedProgress.exists /\ run.startIndex # -1 /\ run.i > run.startIndex) =>
          savedProgress.processedCount = run.i)

\* a resumed run has advanced the checkpoint once, and the count it wrote is
\* not one more than the count it found
C19_Witness ==
  /\ run.resume
  /\ run.pc = "loop"
  /\ run.i = run.startIndex + 1
  /\ savedProgress.processedCount = run.i
  /\ savedProgress.lastProcessedId = run.targetItems[run.i]
  /\ run.closure.processedCount + 1 # savedProgress.processedCount

\* C20: the stop flag is acted on only at the loop head, before an item
\* starts: there the run pauses if the flag is set and starts the item if it
\* is clear.  Setting the flag changes nothing of the run, of the call in
\* flight, of the checkpoint or of the summaries; an item that has started
\* goes on, whatever the flag, and the only ways out of it are its success
\* (summary written, then checkpoint advanced) and its failure, one of which
\* is always possible.
C20_StopOnlyAtBoundary ==
  /\ [][(stopRetrainRef' /\ ~stopRetrainRef) =>
          /\ run' = run
          /\ call' = call
          /\ savedProgress' = savedProgress
          /\ summaries' = summaries]_vars
  /\ [][(run.pc = "loop" /\ run.i < Len(run.targetItems) /\ run' # run) =>
          IF stopRetrainRef
            THEN run'.pc = "ended" /\ run'.pausedAt = run.i
            ELSE run'.pc = "analyze" /\ Last(run'.attempted) = run.i]_vars
  /\ [][(run.pc \in {"analyze", "checkpoint"} /\ run' # run) =>
          /\ run'.pausedAt = -1
          /\ run'.attempted = run.attempted
          /\ \/ /\ run.pc = "analyze"
                /\ call["retrain"].pc = "returned"
                /\ run'.pc = "checkpoint"
                /\ run.targetItems[run.i + 1] \in summaries'
             \/ /\ run.pc = "analyze"
                /\ call["retrain"].pc = "threw"
                /\ run'.pc = "ended"
                /\ status' = "Error"
             \/ /\ run.pc = "checkpoint"
                /\ run'.pc = "loop"
                /\ run'.i = run.i + 1
                /\ savedProgress'.lastProcessedId = run.targetItems[run.i + 1]]_vars
  /\ []((run.pc \in {"analyze", "checkpoint"}) =>
          /\ isProcessing
          /\ stopRetrainRef => status = "Stopping"
          /\ ENABLED (\/ Skip("retrain") \/ Attempt("retrain")
                      \/ Succeed("retrain") \/ Fail("retrain")
                      \/ Exhausted("retrain")
                      \/ SummaryWritten \/ ItemFailed \/ CheckpointAdvanced))

\* the flag was set while the second item was under way, and the item has
\* gone on to write its summary
C20_Witness ==
  /\ stopRetrainRef
  /\ status = "Stopping"
  /\ run.pc = "checkpoint"
  /\ run.i = 1
  /\ run.targetItems[2] \in summaries
  /\ savedProgress.lastProcessedId = run.targetItems[1]

C22_OncePerItem ==
  /\ invoked = SubSeq(knowledgeList, 1, Len(invoked))
  /\ Len(invoked) <= Len(knowledgeList)
  /\ (run.pc = "ended" /\ status = "Complete") => invoked = knowledgeList
  /\ (run.pc \in {"loop", "checkpoint"} /\ run.startIndex # -1) =>
       Len(invoked) = IF run.pc = "loop" THEN run.i ELSE run.i + 1

\* the run that completed the list was a resume that started at the last
\* item, after the first two were done before its pause
C22_Witness ==
  /\ run.pc = "ended"
  /\ status = "Complete"
  /\ run.resume
  /\ run.startIndex = Len(knowledgeList) - 1
  /\ run.closure.processedCount = run.startIndex
  /\ Len(invoked) >= 3
  /\ invoked = knowledgeList

\* C23: a stop requested while the final item is in work changes nothing.
\* The flag is read only at the head of an iteration, so with the flag set
\* and every item behind it the loop is left without another read: the one
\* step the run can take ends it with status Complete, the checkpoint
\* removed and no pause recorded; and no run is ever paused at a position
\* behind its last item.
C23_StopInFinalItem ==
  /\ [][(/\ stopRetrainRef
          /\ run.pc = "loop"
          /\ run.i >= Len(run.targetItems)
          /\ run' # run)
         => (/\ run'.pc = "ended"
             /\ run'.pausedAt = IdleRun.pausedAt
             /\ status' = "Complete"
             /\ ~savedProgress'.exists
             /\ ~isProcessing')]_vars
  /\ [](run.pausedAt < Len(run.targetItems))

\* a run over two items or more has ended complete, its checkpoint removed,
\* with the stop flag set during its final item still standing
C23_Witness ==
  /\ queued
  /\ stopRetrainRef
  /\ run.pc = "ended"
  /\ status = "Complete"
  /\ run.pausedAt = IdleRun.pausedAt
  /\ ~savedProgress.exists
  /\ Len(run.targetItems) >= 2
  /\ Len(run.attempted) = Len(run.targetItems)
  /\ summaries = IdsOf(run.targetItems)

\* C24: every run starts by clearing the stop flag, so a stop requested
\* before the run was started never pauses it. The step that starts a run
\* leaves the flag clear whatever it was; the flag rises only by a stop
\* request made while the page is busy; a run is paused only with the flag
\* standing; and a run that met a standing flag when it was started and has
\* got no stop request since is never paused.
C24_StaleStopIgnored ==
  /\ [][(run.pc = "idle" /\ run'.pc # "idle") => ~stopRetrainRef']_vars
  /\ [][(~stopRetrainRef /\ stopRetrainRef') =>
          (isProcessing /\ status' = "Stopping")]_vars
  /\ [][(run.pc # "ended" /\ run'.pc = "ended" /\ status' = "Paused") =>
          stopRetrainRef]_vars
  /\ []((run.staleStop /\ run.pc \in {"getSettings", "loop", "analyze",
                                       "checkpoint"} /\ ~stopRetrainRef) =>
         run.pausedAt = IdleRun.pausedAt)

\* the stop button was pressed during an upload analysis, the flag stayed
\* set after it, and the run started next has gone through all its items
C24_Witness ==
  /\ ~queued
  /\ run.staleStop
  /\ run.pc = "ended"
  /\ status = "Complete"
  /\ run.pausedAt = IdleRun.pausedAt
  /\ ~run.resume
  /\ Len(run.targetItems) >= 2
  /\ run.attempted = [j \in 1..Len(run.targetItems) |-> j - 1]

\* C25: one run uses one client, so the key that succeeded for an item is
\* the first one tried for the next item of the run: the call for the next
\* item starts at that key, its first candidate and its first attempt are
\* that key, and when that key succeeds again the call has made one attempt
\* and dispatched no rotation event.
C25_KeyCarriedOver ==
  (run.pc = "analyze" /\ Len(run.attempted) >= 2) =>
    LET c == call["retrain"] IN
      /\ run.lastKey \in 0..(Len(apiKeys) - 1)
      /\ c.startIndex = run.lastKey
      /\ c.visited # <<>> => c.visited[1] = run.lastKey
      /\ c.attempts # <<>> => c.attempts[1] = run.lastKey
      /\ Len(c.attempts) <= 1 => c.events = <<>>
      /\ (c.pc = "returned" /\ c.returned = run.lastKey) =>
           (c.attempts = <<run.lastKey>> /\ c.events = <<>>)

\* the second item or a later one of a run has succeeded with the key of
\* the item before it, a key that is not the first of the pool
C25_Witness ==
  /\ run.pc = "analyze"
  /\ Len(run.attempted) >= 2
  /\ call["retrain"].pc = "returned"
  /\ call["retrain"].returned = run.lastKey
  /\ run.lastKey >= 1
  /\ call["retrain"].attempts = <<run.lastKey>>
  /\ call["retrain"].events = <<>>

\* the pool has keys and every one of them is blank
AllBlankPool == PoolPresent /\ WhiteIndices = 0..(Len(apiKeys) - 1)

\* C26: with a pool that is not empty but holds only blank keys, a call
\* attempts nothing, dispatches no rotation event and leaves the sticky
\* index where it was; it passes over every key once and fails with the
\* generic "All API keys failed." error, not with the configuration error.
C26_AllBlankPool ==
  \A c \in Calls :
    (Busy(c) /\ AllBlankPool) =>
      /\ call[c].attempts = <<>>
      /\ call[c].events = <<>>
      /\ call[c].lastError = Undefined
      /\ currentKeyIndex = call[c].startIndex
      /\ call[c].pc \in {"loop", "threw"}
      /\ call[c].pc = "threw" =>
           /\ call[c].thrown = AllKeysFailedError
           /\ call[c].thrown # NoKeysError
           /\ Len(call[c].visited) = Len(apiKeys)

\* a call on a pool of two or more keys, one empty and one of white space,
\* has failed after passing over all of them
C26_Witness ==
  /\ AllBlankPool
  /\ Len(apiKeys) >= 2
  /\ \E x \in WhiteIndices : apiKeys[x + 1] = <<>>
  /\ \E x \in WhiteIndices : apiKeys[x + 1] # <<>>
  /\ call["chat"].pc = "threw"
  /\ call["chat"].thrown = AllKeysFailedError
  /\ call["chat"].attempts = <<>>
  /\ Len(call["chat"].visited) = Len(apiKeys)

\* C27: a checkpoint that exists has 0 <= processedCount <= totalItems, in
\* every state: also in a resumed run and in a run over a list that has
\* changed since the checkpoint was written.
C27_CountWithinTotal ==
  savedProgress.exists =>
    /\ 0 <= savedProgress.processedCount
    /\ savedProgress.processedCount <= savedProgress.totalItems

\* a resumed run over a list shorter than the one its checkpoint was
\* written for has processed an item and rewritten the checkpoint, which
\* now counts every item of the shorter list
C27_Witness ==
  /\ run.resume
  /\ run.pc = "loop"
  /\ run.i > run.startIndex
  /\ Len(run.targetItems) < run.closure.totalItems
  /\ run.closure.processedCount >= 1
  /\ savedProgress.exists
  /\ savedProgress.totalItems = Len(run.targetItems)
  /\ savedProgress.processedCount = savedProgress.totalItems

\* C28 as stated: on the queued page the queue processor and a retrain run
\* never work at the same time: at most one queue entry is processing, and
\* no entry is processing while a retrain run is in flight.
C28_Original ==
  /\ Cardinality(WithStatus(trainingQueue, "processing")) <= 1
  /\ ~(RetrainActive /\ WithStatus(trainingQueue, "processing") # {})

\* the messages of the session by role
RolesOf(ms) == [j \in 1..Len(ms) |-> ms[j].role]

\* user and model messages in turn
Alternating(n) == [j \in 1..n |-> IF j % 2 = 1 THEN "user" ELSE "model"]

TagAt(text, p) ==
  \E k \in 0..Len(text) :
    /\ p + 3 + k <= Len(text)
    /\ text[p] = TagHead
    /\ text[p + 1] = TagWord
    /\ \A j \in 1..k : text[p + 1 + j] = WS
    /\ text[p + 2 + k] \notin {WS, TagHead, TagWord, TagClose}
    /\ text[p + 3 + k] = TagClose

\* the id of the tag at position p
TagId(text, p) == <<text[p + 2 + SpacesFrom(text, p + 2)]>>

\* the stored images of the items the tags of text name, in tag order
RECURSIVE TagImages(_, _)
TagImages(text, p) ==
  IF p > Len(text) THEN <<>>
  ELSE IF TagAt(text, p) THEN ImagesOf(TagId(text, p)) \o TagImages(text, p + 1)
       ELSE TagImages(text, p + 1)

\* C30 as stated: the message the public page persists for a reply holds no
\* [[SEND_IMAGE: id]] tag in its text, and its images are the stored images
\* of the items whose id stands in a tag of the reply, in tag order.
C30_Original ==
  (chat.page = "public" /\ chat.pc = "returned" /\ chat.error = Undefined
     /\ chat.messages # <<>> /\ Last(chat.messages).role = "model"
     /\ Last(chat.messages).text # SettingsErrorText("public")) =>
    LET m == Last(chat.messages) IN
      /\ \A p \in 1..Len(m.text) : ~TagAt(m.text, p)
      /\ m.images = ChatMessage("model", m.text,
                                TagImages(chat.responseText, 1)).images

====
